---- MODULE Spec2Model ----
(***************************************************************************)
(* Model of the `bundle` command of flipper-pkg                            *)
(* (desktop/pkg/src/commands/bundle.ts).                                   *)
(*                                                                         *)
(* A path string is a sequence of atoms.  The atom "/" is the separator;   *)
(* every other atom is a whole path component ("." , ".." or a name), so   *)
(* two components are always separated by at least one "/".  A node of the *)
(* file system is the sequence of names leading to it from the root.       *)
(***************************************************************************)
EXTENDS Integers, Sequences, FiniteSets, TLC

\* ------------------------------------------------------------------ bounds
\* Longest --output string, in atoms.
MaxLen == 3

\* ------------------------------------------------------------ string model
SEP == "/"
Names == {"a", "b"}
Atoms == {SEP, ".", ".."} \cup Names

\* JavaScript `undefined` / `null` (a value, not a string).
Undef == "<undefined>"

\* String(v) as a template literal renders it.
ToStr(v) == IF v = Undef THEN "undefined" ELSE v

\* v || '' on a string-or-undefined value.
OrEmpty(v) == IF v = Undef \/ v = "" THEN "" ELSE v

Last(s) == s[Len(s)]
Front(s) == SubSeq(s, 1, Len(s) - 1)

\* The working directory of the process, as a node.
Cwd == <<"a">>

\* The non-empty components of a path string, in order.
Parts(p) == SelectSeq(p, LAMBDA x: x # SEP)

IsAbsolute(p) == p # <<>> /\ p[1] = SEP
EndsWithSep(p) == p # <<>> /\ Last(p) = SEP

\* node path.posix normalizeString: drop ".", cancel "x/..", keep a leading
\* ".." only when the path may climb above its start.
RECURSIVE NormalizeParts(_, _, _)
NormalizeParts(parts, acc, allowAboveRoot) ==
  IF parts = <<>> THEN acc
  ELSE LET c == Head(parts)
           rest == Tail(parts)
       IN IF c = "." THEN NormalizeParts(rest, acc, allowAboveRoot)
          ELSE IF c = ".."
               THEN IF acc # <<>> /\ Last(acc) # ".."
                    THEN NormalizeParts(rest, Front(acc), allowAboveRoot)
                    ELSE IF allowAboveRoot
                         THEN NormalizeParts(rest, Append(acc, ".."), allowAboveRoot)
                         ELSE NormalizeParts(rest, acc, allowAboveRoot)
               ELSE NormalizeParts(rest, Append(acc, c), allowAboveRoot)

\* Components joined by single separators.
RECURSIVE JoinParts(_)
JoinParts(parts) ==
  IF parts = <<>> THEN <<>>
  ELSE IF Len(parts) = 1 THEN parts
  ELSE <<Head(parts), SEP>> \o JoinParts(Tail(parts))

\* path.normalize
Normalize(p) ==
  IF p = <<>> THEN <<".">>
  ELSE LET abs == IsAbsolute(p)
           trail == EndsWithSep(p)
           body == JoinParts(NormalizeParts(Parts(p), <<>>, ~abs))
       IN IF body = <<>>
          THEN IF abs THEN <<SEP>> ELSE IF trail THEN <<".", SEP>> ELSE <<".">>
          ELSE (IF abs THEN <<SEP>> ELSE <<>>) \o body \o (IF trail THEN <<SEP>> ELSE <<>>)

\* path.join(a, b)
Join(a, b) ==
  LET joined == IF a = <<>> THEN b
                ELSE IF b = <<>> THEN a
                ELSE a \o <<SEP>> \o b
  IN IF joined = <<>> THEN <<".">> ELSE Normalize(joined)

\* The string form of a node: "/" followed by its names.
NodeStr(n) == <<SEP>> \o JoinParts(n)

\* path.resolve(from, to): `to` against `from`, `from` against the cwd.
Resolve2(from, to) ==
  LET chain == IF IsAbsolute(to) THEN Parts(to)
               ELSE IF IsAbsolute(from) THEN Parts(from) \o Parts(to)
               ELSE Cwd \o Parts(from) \o Parts(to)
  IN NodeStr(NormalizeParts(chain, <<>>, FALSE))

\* path.resolve(p)
Resolve(p) == Resolve2(<<>>, p)

\* (variant) a dirname that always answers the current directory
Dirname_Dot(p) == <<".">>

\* path.dirname
Dirname(p) ==
  IF p = <<>> THEN <<".">>
  ELSE LET \* positions (from 2) of a separator that has a non-separator after it
           cand == {i \in 2..Len(p) : p[i] = SEP /\ \E j \in (i+1)..Len(p) : p[j] # SEP}
       IN IF cand = {}
          THEN IF IsAbsolute(p) THEN <<SEP>> ELSE <<".">>
          ELSE LET end == CHOOSE i \in cand : \A k \in cand : k <= i
               IN IF IsAbsolute(p) /\ end = 2 THEN <<SEP, SEP>>
                  ELSE SubSeq(p, 1, end - 1)

\* path.basename
Basename(p) ==
  LET nonsep == {i \in 1..Len(p) : p[i] # SEP}
  IN IF nonsep = {} THEN <<>>
     ELSE LET end == CHOOSE i \in nonsep : \A k \in nonsep : k <= i
              seps == {i \in 1..end : p[i] = SEP}
              start == IF seps = {} THEN 1
                       ELSE 1 + CHOOSE i \in seps : \A k \in seps : k <= i
          IN SubSeq(p, start, end)

\* ------------------------------------------------------------- file system
\* A path value that is not set (JavaScript null / undefined).
NoPath == <<Undef>>

\* Every prefix of a node, the node included, the root excluded.
Prefixes(n) == {SubSeq(n, 1, k) : k \in 1..Len(n)}

\* A node through which a lookup may continue: the root, a directory, or a
\* symbolic link to a directory.
DirLike(f, n) == n = <<>> \/ n \in f.dirs \/ n \in f.links

Present(f, n) == DirLike(f, n) \/ n \in f.files

\* The operating system's lookup of the components of a path from node cur.
RECURSIVE WalkParts(_, _, _)
WalkParts(f, parts, cur) ==
  IF parts = <<>> THEN [ok |-> TRUE, node |-> cur]
  ELSE IF ~DirLike(f, cur) THEN [ok |-> FALSE, node |-> cur]
  ELSE LET c == Head(parts)
           next == IF c = "." THEN cur
                   ELSE IF c = ".." THEN (IF cur = <<>> THEN cur ELSE Front(cur))
                   ELSE Append(cur, c)
       IN IF Present(f, next) THEN WalkParts(f, Tail(parts), next)
          ELSE [ok |-> FALSE, node |-> next]

Walk(f, p) ==
  IF p = <<>> THEN [ok |-> FALSE, node |-> <<>>]
  ELSE LET r == WalkParts(f, Parts(p), IF IsAbsolute(p) THEN <<>> ELSE Cwd)
       IN IF r.ok /\ EndsWithSep(p) /\ ~DirLike(f, r.node)
          THEN [ok |-> FALSE, node |-> r.node]
          ELSE r

\* fs-extra pathExists: fs.access, which follows symbolic links.
pathExists(f, p) == Walk(f, p).ok

\* fs.lstat(p).isDirectory(), for a path that exists: a symbolic link named
\* by the last component is not followed, and so is not a directory.
lstatIsDirectory(f, p) ==
  LET n == Walk(f, p).node
  IN \/ n = <<>>
     \/ n \in f.dirs
     \/ n \in f.links /\ Last(p) \in {SEP, ".", ".."}

\* mkdirp / ensureDir: create the directory and its missing ancestors; fails
\* when a component exists and is a regular file.
MkdirOk(f, p) == \A n \in Prefixes(Parts(Resolve(p))) : n \notin f.files

Mkdir(f, p) ==
  [f EXCEPT !.dirs = @ \cup (Prefixes(Parts(Resolve(p))) \ f.links)]

\* ---------------------------------------------------------------- manifest
\* package.json of the plugin directory; present = FALSE when it cannot be read.
Manifests ==
  {[present |-> FALSE, name |-> Undef, version |-> Undef, main |-> Undef,
    bundleMain |-> NoPath]}
  \cup
  [present : {TRUE}, name : {Undef, "p"}, version : {Undef, "1"},
   main : {Undef, "main.tsx"},
   bundleMain : {NoPath, <<"lib", SEP, "main.js">>}]

\* (variant) the file name without the version
FileNameOf_NoVersion(m) == <<OrEmpty(m.name) \o ".tgz">>

\* `${packageJson.name || ''}-${packageJson.version}.tgz`, one file name.
FileNameOf(m) == <<OrEmpty(m.name) \o "-" \o ToStr(m.version) \o ".tgz">>

\* -------------------------------------------------------------------- state
VARIABLES
  fs,             \* the file system: [dirs, files, links], sets of nodes
  directory,      \* args.directory
  flagOutput,     \* parsedFlags.output
  packageJson,    \* the manifest in the plugin directory
  hasIndexTsx,    \* index.tsx exists in the plugin directory
  hasIndexJsx,    \* index.jsx exists in the plugin directory
  pc,             \* where run() is
  dir, file,      \* the locals of the branch for a missing output target
  output,         \* the local `output`
  inputDirectory, outputFile,
  entry, bundleMain, out,
  answer,         \* what the operator answered: "none", "yes", "no"
  mkdirp,         \* the un-awaited mkdirp(dir): "idle", "pending", "done", "failed"
  trace,          \* what run() has started and finished, in order
  archive         \* the file yarn pack has written, or NoPath

vars == <<fs, directory, flagOutput, packageJson, hasIndexTsx, hasIndexJsx, pc,
          dir, file, output, inputDirectory, outputFile, entry, bundleMain,
          out, answer, mkdirp, trace, archive>>

inputs == <<directory, flagOutput, packageJson, hasIndexTsx, hasIndexJsx>>
resolved == <<inputDirectory, outputFile>>
manifestLocals == <<entry, bundleMain, out>>

\* The strings --output may be: at most MaxLen atoms, components separated.
RECURSIVE StringsOfLen(_)
StringsOfLen(n) ==
  IF n = 0 THEN {<<>>}
  ELSE {Append(s, x) : s \in StringsOfLen(n - 1), x \in Atoms}

WellFormed(s) == \A i \in 1..(Len(s) - 1) : s[i] = SEP \/ s[i + 1] = SEP

OutputFlags ==
  {s \in UNION {StringsOfLen(n) : n \in 0..MaxLen} : WellFormed(s)}

\* The positional argument: the cwd itself, or an entry of it.
DirectoryArgs == {<<".">>, <<"b">>}

Kinds == {"none", "file", "dir", "link"}

\* The file system with the given kinds for /b, /a/a, /a/b and /a/b/a.
FsOf(kb, kaa, kab, kaba) ==
  LET nodes == {<<<<"b">>, kb>>, <<<<"a", "a">>, kaa>>, <<<<"a", "b">>, kab>>,
                <<<<"a", "b", "a">>, kaba>>}
  IN [dirs  |-> {Cwd} \cup {x[1] : x \in {y \in nodes : y[2] = "dir"}},
      files |-> {x[1] : x \in {y \in nodes : y[2] = "file"}},
      links |-> {x[1] : x \in {y \in nodes : y[2] = "link"}}]

Init ==
  /\ \E kb \in {"none", "dir"}, kaa \in Kinds, kab \in Kinds, kaba \in {"none", "dir"} :
       /\ kaba = "dir" => kab = "dir"
       /\ fs = FsOf(kb, kaa, kab, kaba)
  /\ directory \in DirectoryArgs
  /\ flagOutput \in OutputFlags
  /\ packageJson \in Manifests
  /\ hasIndexTsx \in BOOLEAN
  /\ hasIndexJsx \in BOOLEAN
  \* a plugin directory that is not a directory holds no files
  /\ ~(pathExists(fs, directory) /\ lstatIsDirectory(fs, directory))
        => (~packageJson.present /\ ~hasIndexTsx /\ ~hasIndexJsx)
  /\ pc = "start"
  /\ dir = NoPath /\ file = NoPath /\ output = NoPath
  /\ inputDirectory = NoPath /\ outputFile = NoPath
  /\ entry = Undef /\ bundleMain = NoPath /\ out = NoPath
  /\ answer = "none"
  /\ mkdirp = "idle"
  /\ trace = <<>>
  /\ archive = NoPath

\* this.error(...) and a rejected await both end run() with an exception.
Throw(what) ==
  /\ pc' = "failed"
  /\ trace' = Append(trace, what)

\* deriveOutputFileName(args.directory): readJSON of the manifest may throw.
CanDerive == packageJson.present
deriveOutputFileName == FileNameOf(packageJson)

\* (variant) the plugin directory is looked up but its kind is not checked
CheckDirectory_NoThrow ==
  /\ pc = "start"
  /\ IF ~pathExists(fs, directory)
     THEN Throw("error:ENOENT")
     ELSE /\ pc' = "checkOutput"
          /\ trace' = Append(trace, "lstat")
  /\ UNCHANGED <<fs, inputs, dir, file, output, resolved, manifestLocals,
                 answer, mkdirp, archive>>

\* lines 44-47: lstat the plugin directory
CheckDirectory ==
  /\ pc = "start"
  /\ IF ~pathExists(fs, directory)
     THEN Throw("error:ENOENT")
     ELSE IF ~lstatIsDirectory(fs, directory)
     THEN Throw("error:not-a-directory")
     ELSE /\ pc' = "checkOutput"
          /\ trace' = Append(trace, "lstat")
  /\ UNCHANGED <<fs, inputs, dir, file, output, resolved, manifestLocals,
                 answer, mkdirp, archive>>

\* lines 50-61: the output target exists
ResolveExisting ==
  /\ pc = "checkOutput"
  /\ pathExists(fs, flagOutput)
  /\ IF lstatIsDirectory(fs, flagOutput)
     THEN IF CanDerive
          THEN /\ output' = Resolve(Join(flagOutput, deriveOutputFileName))
               /\ pc' = "resolved"
               /\ trace' = Append(trace, "derive")
          ELSE /\ Throw("error:readJSON")
               /\ UNCHANGED output
     ELSE /\ output' = flagOutput
          /\ pc' = "resolved"
          /\ UNCHANGED trace
  /\ UNCHANGED <<fs, inputs, dir, file, resolved, manifestLocals, answer,
                 mkdirp, archive>>

\* (variant) the prompt is issued whether or not the directory exists
ResolveMissing_AlwaysPrompt ==
  /\ pc = "checkOutput"
  /\ ~pathExists(fs, flagOutput)
  /\ dir' = (IF flagOutput # <<>> /\ Last(flagOutput) = SEP
             THEN flagOutput ELSE Dirname(flagOutput))
  /\ file' = (IF flagOutput # <<>> /\ Last(flagOutput) = SEP
              THEN NoPath ELSE Basename(flagOutput))
  /\ pc' = "prompt"
  /\ trace' = Append(trace, "prompt")
  /\ UNCHANGED <<fs, inputs, output, resolved, manifestLocals, answer, mkdirp,
                 archive>>

\* lines 62-79: the output target does not exist; split it, look for its
\* directory, and prompt when that is missing
ResolveMissing ==
  /\ pc = "checkOutput"
  /\ ~pathExists(fs, flagOutput)
  /\ LET d == IF flagOutput # <<>> /\ Last(flagOutput) = SEP
              THEN flagOutput ELSE Dirname(flagOutput)
         f == IF flagOutput # <<>> /\ Last(flagOutput) = SEP
              THEN NoPath ELSE Basename(flagOutput)
     IN /\ dir' = d
        /\ file' = f
        /\ IF ~pathExists(fs, d)
           THEN /\ pc' = "prompt"
                /\ trace' = Append(trace, "prompt")
           ELSE /\ pc' = "joinOutput"
                /\ UNCHANGED trace
  /\ UNCHANGED <<fs, inputs, output, resolved, manifestLocals, answer, mkdirp,
                 archive>>

\* (variant) a declined prompt does not end the run
AnswerPrompt_NoThrow(confirm) ==
  /\ pc = "prompt"
  /\ answer' = (IF confirm THEN "yes" ELSE "no")
  /\ mkdirp' = (IF confirm THEN "pending" ELSE mkdirp)
  /\ pc' = "joinOutput"
  /\ trace' = (IF confirm THEN Append(trace, "mkdirp") ELSE trace)
  /\ UNCHANGED <<fs, inputs, dir, file, output, resolved, manifestLocals,
                 archive>>

\* lines 81-85: the operator answers; mkdirp is started and not awaited
AnswerPrompt(confirm) ==
  /\ pc = "prompt"
  /\ IF confirm
     THEN /\ answer' = "yes"
          /\ mkdirp' = "pending"
          /\ pc' = "joinOutput"
          /\ trace' = Append(trace, "mkdirp")
     ELSE /\ answer' = "no"
          /\ Throw("error:not-found")
          /\ UNCHANGED mkdirp
  /\ UNCHANGED <<fs, inputs, dir, file, output, resolved, manifestLocals,
                 archive>>

\* the started mkdirp(dir) runs to its end, whenever it does
MkdirpSettle ==
  /\ mkdirp = "pending"
  /\ IF MkdirOk(fs, dir)
     THEN /\ fs' = Mkdir(fs, dir)
          /\ mkdirp' = "done"
     ELSE /\ mkdirp' = "failed"
          /\ UNCHANGED fs
  /\ UNCHANGED <<inputs, pc, dir, file, output, resolved, manifestLocals,
                 answer, trace, archive>>

\* (variant) the output is the file name alone, without its directory
JoinOutput_DropDir ==
  /\ pc = "joinOutput"
  /\ IF file = NoPath
     THEN IF CanDerive
          THEN /\ file' = deriveOutputFileName
               /\ output' = deriveOutputFileName
               /\ pc' = "resolved"
               /\ trace' = Append(trace, "derive")
          ELSE /\ Throw("error:readJSON")
               /\ UNCHANGED <<file, output>>
     ELSE /\ output' = file
          /\ pc' = "resolved"
          /\ UNCHANGED <<file, trace>>
  /\ UNCHANGED <<fs, inputs, dir, resolved, manifestLocals, answer, mkdirp,
                 archive>>

\* lines 88-91
JoinOutput ==
  /\ pc = "joinOutput"
  /\ IF file = NoPath
     THEN IF CanDerive
          THEN /\ file' = deriveOutputFileName
               /\ output' = Join(dir, deriveOutputFileName)
               /\ pc' = "resolved"
               /\ trace' = Append(trace, "derive")
          ELSE /\ Throw("error:readJSON")
               /\ UNCHANGED <<file, output>>
     ELSE /\ output' = Join(dir, file)
          /\ pc' = "resolved"
          /\ UNCHANGED <<file, trace>>
  /\ UNCHANGED <<fs, inputs, dir, resolved, manifestLocals, answer, mkdirp,
                 archive>>

\* lines 94-97
LogBundling ==
  /\ pc = "resolved"
  /\ inputDirectory' = Resolve(directory)
  /\ outputFile' = Resolve(output)
  /\ pc' = "ready"
  /\ trace' = Append(trace, "log:bundling")
  /\ UNCHANGED <<fs, inputs, dir, file, output, manifestLocals, answer, mkdirp,
                 archive>>

\* An awaited external step is started: pc moves from `from` to `running`.
Start(from, running, what) ==
  /\ pc = from
  /\ pc' = running
  /\ trace' = Append(trace, what)

\* (variant) a rejected step is reported and the run goes on
Finish_Swallow(running, to, ok, what) ==
  /\ pc = running
  /\ pc' = to
  /\ trace' = Append(trace, IF ok THEN what \o ":done" ELSE "error:" \o what)

\* An awaited external step ends: it resolved, or it rejected and run() throws.
Finish(running, to, ok, what) ==
  /\ pc = running
  /\ IF ok
     THEN /\ pc' = to
          /\ trace' = Append(trace, what \o ":done")
     ELSE Throw("error:" \o what)

\* lines 99-100
StartInstall ==
  /\ Start("ready", "installing", "install")
  /\ UNCHANGED <<fs, inputs, dir, file, output, resolved, manifestLocals,
                 answer, mkdirp, archive>>

\* lines 100-101
FinishInstall(ok) ==
  /\ Finish("installing", "installed", ok, "install")
  /\ UNCHANGED <<fs, inputs, dir, file, output, resolved, manifestLocals,
                 answer, mkdirp, archive>>

\* (variant) index.tsx is never looked for
EntryOf_NoTsx(m, tsx) ==
  IF m.main # Undef THEN m.main ELSE "index.jsx"

\* lines 107-111
EntryOf(m, tsx) ==
  IF m.main # Undef THEN m.main
  ELSE IF tsx THEN "index.tsx" ELSE "index.jsx"

\* line 112
BundleMainOf(m) ==
  IF m.bundleMain # NoPath THEN m.bundleMain
  ELSE Join(<<"dist">>, <<"index.js">>)

\* lines 103-114
ReadPackageJson ==
  /\ pc = "installed"
  /\ IF packageJson.present
     THEN /\ entry' = EntryOf(packageJson, hasIndexTsx)
          /\ bundleMain' = BundleMainOf(packageJson)
          /\ out' = Resolve2(inputDirectory, BundleMainOf(packageJson))
          /\ pc' = "manifestRead"
          /\ trace' = Append(trace, "readManifest:done")
     ELSE /\ Throw("error:readJSON")
          /\ UNCHANGED manifestLocals
  /\ UNCHANGED <<fs, inputs, dir, file, output, resolved, answer, mkdirp,
                 archive>>

\* lines 116-117: ensureDir(path.dirname(out)), awaited
EnsureDir ==
  /\ pc = "manifestRead"
  /\ IF MkdirOk(fs, Dirname(out))
     THEN /\ fs' = Mkdir(fs, Dirname(out))
          /\ pc' = "dirEnsured"
          /\ trace' = Append(trace, "ensureDir:done")
     ELSE /\ Throw("error:ensureDir")
          /\ UNCHANGED fs
  /\ UNCHANGED <<inputs, dir, file, output, resolved, manifestLocals, answer,
                 mkdirp, archive>>

\* line 118
StartBuild ==
  /\ Start("dirEnsured", "compiling", "compile")
  /\ UNCHANGED <<fs, inputs, dir, file, output, resolved, manifestLocals,
                 answer, mkdirp, archive>>

\* lines 118-119
FinishBuild(ok) ==
  /\ Finish("compiling", "compiled", ok, "compile")
  /\ UNCHANGED <<fs, inputs, dir, file, output, resolved, manifestLocals,
                 answer, mkdirp, archive>>

\* (variant) packing starts as soon as the dependencies are installed
StartPack_Early ==
  /\ Start("installed", "packing", "pack")
  /\ UNCHANGED <<fs, inputs, dir, file, output, resolved, manifestLocals,
                 answer, mkdirp, archive>>

\* lines 121-122
StartPack ==
  /\ Start("compiled", "packing", "pack")
  /\ UNCHANGED <<fs, inputs, dir, file, output, resolved, manifestLocals,
                 answer, mkdirp, archive>>

\* lines 122-123: a pack that succeeds has written the archive
FinishPack(ok) ==
  /\ Finish("packing", "packed", ok, "pack")
  /\ archive' = IF ok THEN outputFile ELSE archive
  /\ UNCHANGED <<fs, inputs, dir, file, output, resolved, manifestLocals,
                 answer, mkdirp>>

\* line 125
LogSuccess ==
  /\ pc = "packed"
  /\ pc' = "done"
  /\ trace' = Append(trace, "log:bundled")
  /\ UNCHANGED <<fs, inputs, dir, file, output, resolved, manifestLocals,
                 answer, mkdirp, archive>>

Next ==
  \/ CheckDirectory
  \/ ResolveExisting
  \/ ResolveMissing
  \/ \E confirm \in BOOLEAN : AnswerPrompt(confirm)
  \/ MkdirpSettle
  \/ JoinOutput
  \/ LogBundling
  \/ StartInstall
  \/ \E ok \in BOOLEAN : FinishInstall(ok)
  \/ ReadPackageJson
  \/ EnsureDir
  \/ StartBuild
  \/ \E ok \in BOOLEAN : FinishBuild(ok)
  \/ StartPack
  \/ \E ok \in BOOLEAN : FinishPack(ok)
  \/ LogSuccess

Spec == Init /\ [][Next]_vars

\* ------------------------------------------------------------------ claims
InTrace(e) == \E i \in DOMAIN trace : trace[i] = e
Count(e) == Cardinality({i \in DOMAIN trace : trace[i] = e})

ExternalSteps == {"install", "compile", "pack"}
NoStepStarted == \A x \in ExternalSteps : ~InTrace(x)

\* <name>-<version>.tgz: an absent name is empty, an absent version reads
\* "undefined".
TgzName ==
  (IF packageJson.name = Undef THEN "" ELSE packageJson.name) \o "-"
    \o (IF packageJson.version = Undef THEN "undefined" ELSE packageJson.version)
    \o ".tgz"

\* The absolute form of a path string: its components after those of the
\* working directory, "." and ".." taken out.
AbsoluteForm(p) ==
  NodeStr(NormalizeParts((IF IsAbsolute(p) THEN <<>> ELSE Cwd) \o Parts(p),
                         <<>>, FALSE))

\* The branch for an existing target was taken (no directory is ever created
\* under the names of --output in such a run, so the lookups below still see
\* the file system the branch saw).
TookExisting == dir = NoPath /\ output # NoPath
TookMissing == dir # NoPath

\* C1: when the plugin path exists and is not a directory, run() ends in the
\* "not a directory" error and nothing else happens: no prompt, no mkdirp, no
\* install, no manifest read, no compile, no pack.
C1_NotADirectoryStopsRun ==
  (pathExists(fs, directory) /\ ~lstatIsDirectory(fs, directory))
    => /\ pc \in {"start", "failed"}
       /\ pc = "start" => trace = <<>>
       /\ pc = "failed" => trace = <<"error:not-a-directory">>
       /\ answer = "none" /\ mkdirp = "idle" /\ archive = NoPath
       /\ output = NoPath /\ entry = Undef

C1_Witness ==
  /\ pc = "failed"
  /\ trace = <<"error:not-a-directory">>
  /\ Walk(fs, directory).node \in fs.files

\* C2: when --output exists and lstat says it is a directory D, the output is
\* D followed by <name>-<version>.tgz, and the pack step is started with it.
C2_ExistingDirectoryGetsDerivedName ==
  (TookExisting /\ pathExists(fs, flagOutput) /\ lstatIsDirectory(fs, flagOutput))
    => LET expected == NodeStr(Append(Walk(fs, flagOutput).node, TgzName))
       IN /\ output = expected
          /\ outputFile \in {NoPath, expected}
          /\ pc = "packing" => outputFile = expected
          /\ InTrace("derive")

C2_Witness ==
  /\ TookExisting /\ pathExists(fs, flagOutput) /\ lstatIsDirectory(fs, flagOutput)
  /\ pc = "packing"
  /\ packageJson.name = "p" /\ packageJson.version = "1"
  /\ Len(Walk(fs, flagOutput).node) = 2

\* C3: when --output does not exist, ends with a separator and the operator
\* confirms, the output file is <name>-<version>.tgz directly inside the
\* target, and (the manifest being readable) the run does not end before the
\* install step and goes through install, compile and pack with that path.
C3_NewDirectoryGetsDerivedName ==
  (answer = "yes" /\ EndsWithSep(flagOutput) /\ packageJson.present)
    => /\ pc = "failed" => InTrace("install")
       /\ pc \in {"installing", "compiling", "packing"} => outputFile # NoPath
       /\ outputFile # NoPath
            => /\ Dirname(outputFile) = AbsoluteForm(flagOutput)
               /\ Basename(outputFile) = <<TgzName>>

C3_Witness ==
  /\ answer = "yes" /\ EndsWithSep(flagOutput) /\ packageJson.present
  /\ pc = "packing"
  /\ ~pathExists(fs, flagOutput)

\* C4: for an existing target that is not a directory, and for a missing
\* target without a trailing separator, the output file is the absolute form
\* of the target itself and no file name is derived from the manifest.
C4_NoDerivationOtherwise ==
  (\/ TookExisting /\ ~lstatIsDirectory(fs, flagOutput)
   \/ TookMissing /\ ~EndsWithSep(flagOutput))
    => /\ ~InTrace("derive")
       /\ output # NoPath => Resolve(output) = AbsoluteForm(flagOutput)
       /\ outputFile \in {NoPath, AbsoluteForm(flagOutput)}
       /\ pc = "packing" => outputFile = AbsoluteForm(flagOutput)

C4_Witness ==
  /\ TookMissing /\ flagOutput = <<"a", SEP, "b">>
  /\ answer = "none"
  /\ pc = "packing"
  /\ packageJson.name = "p"

\* C5: when the operator declines, run() ends in the "not found" error, the
\* directory is not created, no archive is written and no install, compile
\* or pack step is started.
C5_DeclineStopsRun ==
  answer = "no"
    => /\ pc = "failed"
       /\ Last(trace) = "error:not-found"
       /\ mkdirp = "idle"
       /\ ~pathExists(fs, dir)
       /\ archive = NoPath
       /\ NoStepStarted

C5_Witness ==
  /\ answer = "no"
  /\ InTrace("prompt")
  /\ EndsWithSep(flagOutput)

\* C6: once install, compile or pack has failed, run() has ended: the failure
\* is the last thing that happened, the step was started once, nothing was
\* started after it and the success line is not logged.
C6_ExternalFailureAborts ==
  \A x \in ExternalSteps :
    InTrace("error:" \o x)
      => /\ pc = "failed"
         /\ Last(trace) = "error:" \o x
         /\ Count(x) = 1
         /\ ~InTrace("log:bundled")
         /\ archive = NoPath

C6_Witness ==
  /\ InTrace("error:compile")
  /\ InTrace("install:done")

\* C7: the stages are started and finished in the order install, manifest
\* read, ensure the bundle's directory, compile, pack, each after the one
\* before it has finished; the bundle's directory exists while compiling.
StageOrder ==
  <<"install", "install:done", "readManifest:done", "ensureDir:done",
    "compile", "compile:done", "pack", "pack:done">>

C7_StagesInOrder ==
  LET stages == SelectSeq(trace, LAMBDA e : \E i \in DOMAIN StageOrder : StageOrder[i] = e)
  IN /\ Len(stages) <= Len(StageOrder)
     /\ stages = SubSeq(StageOrder, 1, Len(stages))
     /\ pc = "compiling" => pathExists(fs, Dirname(out))

C7_Witness ==
  /\ pc = "packing"
  /\ Walk(fs, Dirname(out)).node \in fs.dirs

\* C8 (as claimed): with no main and neither index.tsx nor index.jsx, the
\* entry is undefined.
C8_EntryUndefinedWhenNeitherExists ==
  pc \in {"manifestRead", "dirEnsured", "compiling"}
    => entry = IF packageJson.main # Undef THEN packageJson.main
               ELSE IF hasIndexTsx THEN "index.tsx"
               ELSE IF hasIndexJsx THEN "index.jsx"
               ELSE Undef

\* C8 (amended): the entry is the declared main; otherwise index.tsx when
\* that file exists, and index.jsx in every other case, whether or not
\* index.jsx exists.
C8_EntryFallsBackToJsx ==
  pc \in {"manifestRead", "dirEnsured", "compiling"}
    => /\ packageJson.main # Undef => entry = packageJson.main
       /\ packageJson.main = Undef /\ hasIndexTsx => entry = "index.tsx"
       /\ packageJson.main = Undef /\ ~hasIndexTsx => entry = "index.jsx"

C8_Witness ==
  /\ pc = "compiling"
  /\ packageJson.main = Undef /\ ~hasIndexTsx /\ ~hasIndexJsx
  /\ entry = "index.jsx"

\* C9 (as claimed): after the operator has confirmed, the creation of the
\* directory has ended before a later stage runs, and the directory exists
\* when the pack step is started.
C9_DirectoryCreatedBeforeLaterStages ==
  answer = "yes"
    => /\ pc \in {"installing", "compiling", "packing"} => mkdirp # "pending"
       /\ pc = "packing" => pathExists(fs, dir)

\* C10: the prompt is issued at most once; run() goes from the look at the
\* output target to the prompt exactly when neither the target nor its
\* directory part exists; while the prompt is unanswered nothing has been
\* started, and the only way on is the answer.
DirPart(p) == IF EndsWithSep(p) THEN p ELSE Dirname(p)

C10_PromptDiscipline ==
  /\ [](/\ Count("prompt") <= 1
        /\ InTrace("prompt") <=> (pc = "prompt" \/ answer # "none")
        /\ pc = "prompt" => (answer = "none" /\ mkdirp = "idle" /\ NoStepStarted))
  /\ [][/\ (pc = "checkOutput" /\ pc' # pc)
             => ((pc' = "prompt")
                   <=> (~pathExists(fs, flagOutput) /\ ~pathExists(fs, DirPart(flagOutput))))
        /\ pc' = "prompt" => pc = "checkOutput"
        /\ pc = "prompt" => (pc' \in {"joinOutput", "failed"} /\ answer' # "none")]_vars

C10_Witness ==
  /\ pc = "prompt"
  /\ ~EndsWithSep(flagOutput)
  /\ ~pathExists(fs, Dirname(flagOutput))

====
